---- MODULE Spec2Model ----
(***************************************************************************)
(* Face_Enhancer_Tool: the RunPod job handler (rp_handler.py) and the      *)
(* frame pipeline it runs as a subprocess (inference_face_enhancer.py).    *)
(*                                                                         *)
(* One job is modelled from the call of handler(job) to its return.  The   *)
(* handler validates the request, checks the URL, creates its two temp     *)
(* files, downloads, starts the pipeline as a child process, waits for it  *)
(* (or kills it on timeout), packages the artifact and cleans up.  The     *)
(* child runs the CLI entry point and main(args) step by step; the kill    *)
(* can land between any two of its steps.                                  *)
(*                                                                         *)
(* The outside world (HTTP server, codec back-end, ffmpeg, the enhancement *)
(* models, the deletion of a file) is a nondeterministic choice at the     *)
(* step that calls it.  Weights are in tenths (0.5 is 5).                   *)
(***************************************************************************)
EXTENDS Integers, Sequences, FiniteSets, TLC

\* ------------------------------------------------------------------ bounds
\* Largest frame count the probe reports.
MaxFrames == 2
\* Number of names NamedTemporaryFile can draw from, and of process ids the
\* system can hand out, when two jobs run side by side.
MaxNames == 4
MaxPids == 2

\* ------------------------------------------------------- program constants
MAX_FILE_SIZE == 500 * 1024 * 1024
INLINE_LIMIT == 50 * 1024 * 1024
valid_enhancers ==
    {"GFPGAN", "Codeformer", "GPEN", "RealESRGAN",
     "Restoreformer", "Restoreformer32", "Restoreformer16"}

\* ------------------------------------------------------------ value spaces
NoValue == "<none>"

\* The three temp paths of a job, and the output path main derives when the
\* CLI is given none.
input_path == "input_path"
output_path == "output_path"
temp_video_file == "temp_video_file"
default_outfile == "default_outfile"
Paths == {input_path, output_path, temp_video_file, default_outfile}

\* A file on disk.  bytes is its size; frames is its video content.
NoFile == [exists |-> FALSE, bytes |-> 0, frames |-> <<>>, audio |-> FALSE]
EmptyFile == [exists |-> TRUE, bytes |-> 0, frames |-> <<>>, audio |-> FALSE]

\* Frame k of the source, as the reader returns it.
Orig(k) == [id |-> k, enhanced |-> FALSE, selected |-> FALSE]

\* Job inputs the model enumerates.  enhancer_w is the raw JSON value, as
\* text; ParseFloat is float() on it.
InputShapes == {"dict", "notdict"}
UrlValues == {NoValue, "url"}
EnhancerValues == {NoValue, "GFPGAN", "Codeformer", "Bogus"}
FaceIdValues == {NoValue, "false"}
WeightValues == {NoValue, "-0.1", "0", "1", "1.5", "abc"}

ParseOk(w) == w \in {"-0.1", "0", "0.5", "1", "1.5"}
ParseFloat(w) ==
    CASE w = "-0.1" -> -1
      [] w = "0" -> 0
      [] w = "0.5" -> 5
      [] w = "1" -> 10
      [] w = "1.5" -> 15
      [] OTHER -> 0

\* Sizes the model draws artifact and body sizes from.
ArtifactSizes == {0, 1, INLINE_LIMIT, INLINE_LIMIT + 1}
BodySizes == {0, 1, MAX_FILE_SIZE + 1}
LengthHeaders ==
    {[tag |-> "absent", val |-> 0], [tag |-> "malformed", val |-> 0]}
    \cup {[tag |-> "int", val |-> n] :
             n \in {1, MAX_FILE_SIZE, MAX_FILE_SIZE + 1}}
HeadOutcomes ==
    {[kind |-> "timeout", status |-> 0, clen |-> [tag |-> "absent", val |-> 0]],
     [kind |-> "reqerr", status |-> 0, clen |-> [tag |-> "absent", val |-> 0]]}
    \cup {[kind |-> "resp", status |-> s, clen |-> c] :
             s \in {200, 404}, c \in LengthHeaders}
NoHead == [kind |-> "none", status |-> 0, clen |-> [tag |-> "absent", val |-> 0]]

VARIABLES
    job,              \* the request (shape of input, and its four fields)
    hpc,              \* the handler's position
    temp_files,       \* handler: its temp_files list
    result,           \* what handler returned (NoResult until it returns)
    events,           \* handler: the external effects it caused, in order
    head,             \* the response to the HEAD request
    fs,               \* the file system: path -> file
    cleaned,          \* the paths a cleanup loop visited, in order
    rmFailed,         \* the paths whose os.remove raised
    allocated,        \* the temp files created during the job
    silent,           \* the intermediate video as the writer released it
    artifact,         \* the output file as the Package step found it
    proc,             \* the child process: none, running, exited, killed
    returncode,       \* its exit code
    args,             \* its command line
    ppc,              \* main's position
    p_temp_files,     \* main: its temp_files list
    frame_count,      \* main: the probed frame count
    frame_idx,        \* main: loop index
    processed_frames, \* main: the counter it logs
    written,          \* main: the frames passed to out.write, in order
    video_stream,     \* main: read handle: none, open, released
    out,              \* main: write handle: none, open, released
    read_failed,      \* main: a read returned no frame and the loop broke
    enh_failed,       \* main: the indices whose enhance() raised
    sel_failed,       \* main: the indices whose get_final_image() raised
    remux,            \* main: how ffmpeg ended: none, ok, fail, timeout
    p_ret,            \* main: its return value: none, true, false
    \* Two jobs side by side (SpecPair), indexed by job:
    jpc,              \* handler's position
    jtemp,            \* handler's temp_files list
    cpc,              \* the child's position: none, main, remux, exited, killed
    jpid,             \* the child's process id (0: none)
    live,             \* the process ids in use (running or not yet reaped)
    owned,            \* the temp files the job created that are still on disk
    clash             \* <<job, path>>: job acted on a file of the other job

hvars == <<job, hpc, temp_files, result, events, head>>
evars == <<fs, cleaned, rmFailed, allocated, silent, artifact>>
cvars == <<proc, returncode, args>>
pvars == <<ppc, p_temp_files, frame_count, frame_idx, processed_frames,
           written, video_stream, out, read_failed, enh_failed, sel_failed,
           remux, p_ret>>
pairvars == <<jpc, jtemp, cpc, jpid, live, owned, clash>>
singlevars == <<hvars, evars, cvars, pvars>>
vars == <<hvars, evars, cvars, pvars, pairvars>>


Range(seq) == {seq[i] : i \in 1..Len(seq)}

\* ------------------------------------------------------------ job results
NoPayload == [chars |-> 0, data |-> NoFile]
NoResult ==
    [kind |-> "none", error |-> <<>>, file_size |-> -1,
     video_base64 |-> NoPayload, enhancer_used |-> NoValue,
     faceid_used |-> FALSE, enhancer_weight |-> -1]
\* {"error": msg}
Error(msg) == [NoResult EXCEPT !.kind = "error", !.error = msg]
\* An exception that leaves handler uncaught.
Raised(exc) == [NoResult EXCEPT !.kind = "raised", !.error = <<exc>>]

\* Request fields with their defaults (handler, input_data.get(..., default)).
enhancer == IF job.enhancer = NoValue THEN "GFPGAN" ELSE job.enhancer
use_faceid == job.use_faceid = NoValue
enhancer_w_text == IF job.enhancer_w = NoValue THEN "0.5" ELSE job.enhancer_w
enhancer_w == ParseFloat(enhancer_w_text)

\* base64.b64encode(f.read()): four characters for every three bytes, of the
\* whole file.
b64encode(file) == [chars |-> 4 * ((file.bytes + 2) \div 3), data |-> file]

\* Variant: the exception is not caught.
handler_except_raise(exc) == Raised(exc)
\* handler's outer `except Exception`: the exception becomes an error result.
handler_except(exc) == Error(<<"server error", exc>>)

\* Variant: validation without the range test on enhancer_w.
handler_validate_noweight ==
    IF job.shape # "dict" THEN handler_except("AttributeError")
    ELSE IF job.video_url = NoValue THEN Error(<<"missing video_url">>)
    ELSE IF ~ParseOk(enhancer_w_text) THEN handler_except("ValueError")
    ELSE IF enhancer \notin valid_enhancers
         THEN Error(<<"invalid enhancer", enhancer>>)
    ELSE NoResult
\* handler's parse-and-validate block: the result it returns, or NoResult
\* when the request passes.
handler_validate ==
    IF job.shape # "dict" THEN handler_except("AttributeError")
    ELSE IF job.video_url = NoValue THEN Error(<<"missing video_url">>)
    ELSE IF ~ParseOk(enhancer_w_text) THEN handler_except("ValueError")
    ELSE IF enhancer \notin valid_enhancers
         THEN Error(<<"invalid enhancer", enhancer>>)
    ELSE IF ~(0 <= enhancer_w /\ enhancer_w <= 10)
         THEN Error(<<"enhancer_w out of range">>)
    ELSE NoResult

\* Variant: every response passes the check.
validate_video_url_always(resp) == <<TRUE, "ok">>
\* validate_video_url on the response to its HEAD request: <<is_valid, why>>.
validate_video_url(resp) ==
    IF resp.kind = "timeout" THEN <<FALSE, "timeout">>
    ELSE IF resp.kind = "reqerr" THEN <<FALSE, "request error">>
    ELSE IF resp.status # 200 THEN <<FALSE, "http status">>
    ELSE IF resp.clen.tag = "malformed" THEN <<FALSE, "unknown error">>
    ELSE IF resp.clen.tag = "int" /\ resp.clen.val > MAX_FILE_SIZE
         THEN <<FALSE, "too large">>
    ELSE <<TRUE, "ok">>

\* download_video: outcome is what the GET produced, a request error or a
\* body of some size streamed into the file.
DownloadOutcomes ==
    {[kind |-> "reqerr", size |-> 0]}
    \cup {[kind |-> "body", size |-> b] : b \in BodySizes}
\* Variant: no test for a zero-byte file.
download_video_nocheck(files, outcome) ==
    IF outcome.kind = "reqerr"
    THEN [ok |-> FALSE, fs |-> files]
    ELSE [ok |-> TRUE,
          fs |-> [files EXCEPT ![input_path] =
                    [exists |-> TRUE, bytes |-> outcome.size,
                     frames |-> <<>>, audio |-> TRUE]]]
download_video(files, outcome) ==
    IF outcome.kind = "reqerr"
    THEN [ok |-> FALSE, fs |-> files]
    ELSE [ok |-> outcome.size # 0,
          fs |-> [files EXCEPT ![input_path] =
                    [exists |-> TRUE, bytes |-> outcome.size,
                     frames |-> <<>>, audio |-> TRUE]]]

\* How the download ended, as the handler's log shows it.
download_event(outcome) ==
    IF outcome.kind = "reqerr" THEN "get_error"
    ELSE IF outcome.size = 0 THEN "get_empty"
    ELSE "get_body"

\* Variant: no test for an empty output file.
rfe_collect_noempty(rc, files) ==
    IF rc = 0
    THEN IF ~files[output_path].exists THEN <<FALSE, "output not created">>
         ELSE <<TRUE, "ok">>
    ELSE <<FALSE, "inference error">>
\* run_face_enhancement after communicate() returned: <<success, message>>.
rfe_collect(rc, files) ==
    IF rc = 0
    THEN IF ~files[output_path].exists THEN <<FALSE, "output not created">>
         ELSE IF files[output_path].bytes = 0 THEN <<FALSE, "output is empty">>
         ELSE <<TRUE, "ok">>
    ELSE <<FALSE, "inference error">>

\* Variant: the limit itself is refused.
FitsInline_strict(size) == size < INLINE_LIMIT
\* The size test of the Package step.
FitsInline(size) == size <= INLINE_LIMIT

\* handler's "Prepare output" block.
package(files) ==
    IF ~files[output_path].exists
    THEN Error(<<"output processing error">>)
    ELSE IF FitsInline(files[output_path].bytes)
    THEN [kind |-> "success", error |-> <<>>,
          file_size |-> files[output_path].bytes,
          video_base64 |-> b64encode(files[output_path]),
          enhancer_used |-> enhancer, faceid_used |-> use_faceid,
          enhancer_weight |-> enhancer_w]
    ELSE [Error(<<"result too large">>) EXCEPT
             !.file_size = files[output_path].bytes]

\* Variant: the first os.remove that raises ends the loop.
RECURSIVE cleanup_files_abort(_, _, _)
cleanup_files_abort(files, paths, stuck) ==
    IF paths = <<>>
    THEN [fs |-> files, visited |-> <<>>, failed |-> {}]
    ELSE LET p == Head(paths)
             attempt == p # NoValue /\ files[p].exists
             raises == attempt /\ p \in stuck
             after == IF attempt /\ ~raises
                      THEN [files EXCEPT ![p] = NoFile] ELSE files
             rest == IF raises
                     THEN [fs |-> files, visited |-> <<>>, failed |-> {}]
                     ELSE cleanup_files_abort(after, Tail(paths), stuck)
         IN  [fs |-> rest.fs,
              visited |-> <<p>> \o rest.visited,
              failed |-> (IF raises THEN {p} ELSE {}) \cup rest.failed]
\* Variant: the loop stops after the first path.
cleanup_files_first(files, paths, stuck) ==
    IF paths = <<>>
    THEN [fs |-> files, visited |-> <<>>, failed |-> {}]
    ELSE LET p == Head(paths)
             attempt == p # NoValue /\ files[p].exists
             raises == attempt /\ p \in stuck
         IN  [fs |-> IF attempt /\ ~raises
                     THEN [files EXCEPT ![p] = NoFile] ELSE files,
              visited |-> <<p>>,
              failed |-> IF raises THEN {p} ELSE {}]
\* cleanup_files(*file_paths): the loop over the paths.  stuck are the paths
\* whose os.remove raises; the exception is logged and the loop goes on.
RECURSIVE cleanup_files(_, _, _)
cleanup_files(files, paths, stuck) ==
    IF paths = <<>>
    THEN [fs |-> files, visited |-> <<>>, failed |-> {}]
    ELSE LET p == Head(paths)
             attempt == p # NoValue /\ files[p].exists
             raises == attempt /\ p \in stuck
             after == IF attempt /\ ~raises
                      THEN [files EXCEPT ![p] = NoFile] ELSE files
             rest == cleanup_files(after, Tail(paths), stuck)
         IN  [fs |-> rest.fs,
              visited |-> <<p>> \o rest.visited,
              failed |-> (IF raises THEN {p} ELSE {}) \cup rest.failed]

\* A return statement of handler: the value is fixed, the finally block
\* runs cleanup_files(*temp_files), and the value reaches the caller.
\* tfs and files are temp_files and the file system at the return.
handler_return(res, tfs, files) ==
    \E stuck \in SUBSET {p \in Range(tfs) : files[p].exists} :
        LET c == cleanup_files(files, tfs, stuck)
        IN  /\ result' = res
            /\ hpc' = "returned"
            /\ fs' = c.fs
            /\ cleaned' = cleaned \o c.visited
            /\ rmFailed' = rmFailed \cup c.failed
            /\ UNCHANGED pairvars

\* handler goes on to its next statement.
handler_goto(pc, files) ==
    /\ hpc' = pc
    /\ fs' = files
    /\ UNCHANGED <<result, cleaned, rmFailed, pairvars>>

NoArgs ==
    [face |-> NoValue, enhancer |-> NoValue, enhancer_w |-> 0,
     use_faceid |-> FALSE, outfile |-> NoValue]

\* ---------------------------------------------------------------- handler
\* Parse input, required and optional parameters, validation.
handler_parse ==
    /\ hpc = "start"
    /\ IF handler_validate.kind = "none"
       THEN handler_goto("url_check", fs)
       ELSE handler_return(handler_validate, temp_files, fs)
    /\ UNCHANGED <<job, temp_files, events, head, allocated, silent, artifact,
                   cvars, pvars>>

\* url_valid, url_error = validate_video_url(video_url)
handler_url_check ==
    /\ hpc = "url_check"
    /\ \E resp \in HeadOutcomes :
        /\ head' = resp
        /\ events' = Append(events, "head")
        /\ IF validate_video_url(resp)[1]
           THEN handler_goto("mktemp", fs)
           ELSE handler_return(
                    Error(<<"invalid url", validate_video_url(resp)[2]>>),
                    temp_files, fs)
    /\ UNCHANGED <<job, temp_files, allocated, silent, artifact, cvars,
                   pvars>>

\* The two NamedTemporaryFile(delete=False) blocks; made is how many of
\* them were created before one raised.
handler_mktemp ==
    /\ hpc = "mktemp"
    /\ \E made \in 0..2 :
        LET tfs == SubSeq(<<input_path, output_path>>, 1, made)
            files == [p \in Paths |->
                        IF p \in Range(tfs) THEN EmptyFile ELSE fs[p]]
        IN  /\ temp_files' = temp_files \o tfs
            /\ allocated' = allocated \cup Range(tfs)
            /\ events' = events \o [i \in 1..made |-> "mktemp"]
            /\ IF made = 2
               THEN handler_goto("download", files)
               ELSE handler_return(handler_except("OSError"),
                                   temp_files \o tfs, files)
    /\ UNCHANGED <<job, head, silent, artifact, cvars, pvars>>

\* if not download_video(video_url, input_path): return error
handler_download ==
    /\ hpc = "download"
    /\ \E o \in DownloadOutcomes :
        LET d == download_video(fs, o)
        IN  /\ events' = events \o <<"get", download_event(o)>>
            /\ IF d.ok
               THEN handler_goto("process", d.fs)
               ELSE handler_return(Error(<<"download failed">>),
                                   temp_files, d.fs)
    /\ UNCHANGED <<job, temp_files, head, allocated, silent, artifact, cvars,
                   pvars>>

\* run_face_enhancement up to Popen.  A missing input file or a Popen that
\* raises is caught by its `except Exception` and handler returns the error.
handler_spawn ==
    /\ hpc = "process"
    /\ \E started \in BOOLEAN :
        IF fs[input_path].exists /\ started
        THEN /\ proc' = "running"
             /\ args' = [face |-> input_path, enhancer |-> enhancer,
                         enhancer_w |-> enhancer_w,
                         use_faceid |-> use_faceid, outfile |-> output_path]
             /\ events' = Append(events, "spawn")
             /\ handler_goto("communicate", fs)
        ELSE /\ UNCHANGED <<proc, args, events>>
             /\ handler_return(
                    Error(<<"enhancement failed", "exception">>),
                    temp_files, fs)
    /\ UNCHANGED <<job, temp_files, head, allocated, silent, artifact,
                   returncode, pvars>>

\* process.communicate(timeout=TIMEOUT_SECONDS) returned: the child exited.
handler_communicate ==
    /\ hpc = "communicate"
    /\ proc = "exited"
    /\ IF rfe_collect(returncode, fs)[1]
       THEN handler_goto("package", fs)
       ELSE handler_return(
                Error(<<"enhancement failed", rfe_collect(returncode, fs)[2]>>),
                temp_files, fs)
    /\ UNCHANGED <<job, temp_files, events, head, allocated, silent, artifact,
                   cvars, pvars>>

\* Variant: the child is left alone.
process_kill_noop(p) == p

\* process.kill(); process.wait(): the state of the child afterwards.
process_kill(p) == "killed"

\* subprocess.TimeoutExpired: process.kill(); process.wait(); the error is
\* returned.  The timeout can expire at any point of the child's run.
handler_timeout ==
    /\ hpc = "communicate"
    /\ proc = "running"
    /\ proc' = process_kill(proc)
    /\ events' = Append(events, "kill")
    /\ handler_return(Error(<<"enhancement failed", "timeout">>),
                      temp_files, fs)
    /\ UNCHANGED <<job, temp_files, head, allocated, silent, artifact,
                   returncode, args, pvars>>

\* Step 3: Prepare output.
handler_package ==
    /\ hpc = "package"
    /\ events' = IF package(fs).kind = "success"
                 THEN Append(events, "read_output") ELSE events
    /\ artifact' = fs[output_path]
    /\ handler_return(package(fs), temp_files, fs)
    /\ UNCHANGED <<job, temp_files, head, allocated, silent, cvars, pvars>>

\* --------------------------------------------------- the pipeline process
\* Variant: the exit code ignores the result.
exit_code_zero(success) == 0
\* sys.exit(0 if success else 1)
exit_code(success) == IF success THEN 0 ELSE 1

\* cleanup_temp_files(*file_paths): as cleanup_files, without the test for
\* an empty path.
\* Variant: the loop deletes whatever main has touched, listed or not.
cleanup_temp_files_all(files, paths, stuck) ==
    [fs |-> [p \in Paths |-> NoFile], visited |-> paths, failed |-> {}]

RECURSIVE cleanup_temp_files(_, _, _)
cleanup_temp_files(files, paths, stuck) ==
    IF paths = <<>>
    THEN [fs |-> files, visited |-> <<>>, failed |-> {}]
    ELSE LET p == Head(paths)
             attempt == files[p].exists
             raises == attempt /\ p \in stuck
             after == IF attempt /\ ~raises
                      THEN [files EXCEPT ![p] = NoFile] ELSE files
             rest == cleanup_temp_files(after, Tail(paths), stuck)
         IN  [fs |-> rest.fs,
              visited |-> <<p>> \o rest.visited,
              failed |-> (IF raises THEN {p} ELSE {}) \cup rest.failed]

\* The child leaves the CLI block through sys.exit(code) without entering
\* main (argparse error, or a failed argument check).
cli_exit(code) ==
    /\ ppc' = "exited"
    /\ proc' = "exited"
    /\ returncode' = code
    /\ UNCHANGED <<p_ret, fs, cleaned, rmFailed, pairvars>>

\* main returns ret (`return True`, or `return False` from its except
\* block), its finally block runs cleanup_temp_files(*temp_files), and the
\* CLI exits with the code.  tfs and files are main's temp_files and the
\* file system at the return.
main_return(ret, tfs, files) ==
    \E stuck \in SUBSET {p \in Range(tfs) : files[p].exists} :
        LET c == cleanup_temp_files(files, tfs, stuck)
        IN  /\ p_ret' = IF ret THEN "true" ELSE "false"
            /\ ppc' = "exited"
            /\ proc' = "exited"
            /\ returncode' = exit_code(ret)
            /\ fs' = c.fs
            /\ cleaned' = cleaned \o c.visited
            /\ rmFailed' = rmFailed \cup c.failed
            /\ UNCHANGED pairvars

\* main goes on to its next statement.
main_goto(pc, files) ==
    /\ ppc' = pc
    /\ fs' = files
    /\ UNCHANGED <<p_ret, proc, returncode, cleaned, rmFailed, pairvars>>

\* The external frame transform and identity selection.  MockEnhancer and
\* MockFaceID stand for the models; the result is marked so that a
\* transformed frame differs from the frame it was made from.
enhance(frame) == [frame EXCEPT !.enhanced = TRUE]
get_final_image(original, enhanced, reference) ==
    [enhanced EXCEPT !.selected = TRUE]

\* Variant: a failed identity selection keeps the transformed frame.
process_frame_keep_enhanced(frame, faceid, enh_ok, sel_ok) ==
    IF ~enh_ok
    THEN [frame |-> frame, counted |-> 0]
    ELSE IF faceid /\ ~sel_ok
    THEN [frame |-> enhance(frame), counted |-> 0]
    ELSE [frame |-> IF faceid
                    THEN get_final_image(frame, enhance(frame), frame)
                    ELSE enhance(frame),
          counted |-> 1]
\* The try/except of one loop iteration: the frame handed to out.write and
\* what the iteration adds to processed_frames.  enh_ok and sel_ok say
\* whether enhance() and get_final_image() returned.
process_frame(frame, faceid, enh_ok, sel_ok) ==
    IF ~enh_ok \/ (faceid /\ ~sel_ok)
    THEN [frame |-> frame, counted |-> 0]
    ELSE [frame |-> IF faceid
                    THEN get_final_image(frame, enhance(frame), frame)
                    ELSE enhance(frame),
          counted |-> 1]

\* Variant: the frame is put in front of the frames already written.
write_frame_first(frames, frame) == <<frame>> \o frames
\* out.write(enhanced_frame)
write_frame(frames, frame) == Append(frames, frame)

\* shutil.copy2(src, dst)
copy2(files, src, dst) == [files EXCEPT ![dst] = files[src]]

\* What the ffmpeg run leaves at the output path.  how is its end (ok: exit
\* code 0, fail: another exit code, timeout: killed after 300 s); wrote says
\* whether it wrote the file, size is the size of a merged file.
ffmpeg(files, how, wrote, size) ==
    IF ~wrote THEN files
    ELSE IF how = "ok"
    THEN [files EXCEPT ![args.outfile] =
            [exists |-> TRUE, bytes |-> size,
             frames |-> files[temp_video_file].frames, audio |-> TRUE]]
    ELSE [files EXCEPT ![args.outfile] =
            [exists |-> TRUE, bytes |-> 1, frames |-> <<>>, audio |-> FALSE]]

\* parser.parse_args(): --face is required and --enhancer has a closed set
\* of choices; argparse reports a violation and exits with status 2.
argparse_rejects(a) ==
    a.face = NoValue \/ a.enhancer \notin valid_enhancers

\* The block under `if __name__ == '__main__'`: argparse, then the two
\* argument checks, then main(args).
cli_start ==
    /\ proc = "running"
    /\ ppc = "cli"
    /\ IF argparse_rejects(args) THEN cli_exit(2)
       ELSE IF ~fs[args.face].exists THEN cli_exit(1)
       ELSE IF args.enhancer_w < 0 \/ args.enhancer_w > 10 THEN cli_exit(1)
       ELSE main_goto("start", fs)
    /\ UNCHANGED <<hvars, allocated, silent, artifact, args, p_temp_files,
                   frame_count, frame_idx, processed_frames, written,
                   video_stream, out, read_failed, enh_failed, sel_failed,
                   remux>>

\* main up to temp_files.append(temp_video_file).
main_start ==
    /\ proc = "running"
    /\ ppc = "start"
    /\ IF ~fs[args.face].exists
       THEN /\ main_return(FALSE, p_temp_files, fs)
            /\ UNCHANGED <<args, p_temp_files>>
       ELSE /\ args' = IF args.outfile = NoValue
                       THEN [args EXCEPT !.outfile = default_outfile]
                       ELSE args
            /\ p_temp_files' = Append(p_temp_files, temp_video_file)
            /\ main_goto("probe", fs)
    /\ UNCHANGED <<hvars, allocated, silent, artifact, frame_count, frame_idx,
                   processed_frames, written, video_stream, out, read_failed,
                   enh_failed, sel_failed, remux>>

\* fps, width, height, frame_count = get_video_details(args.face)
main_probe ==
    /\ proc = "running"
    /\ ppc = "probe"
    /\ \E opened \in BOOLEAN, valid \in BOOLEAN, n \in 0..MaxFrames :
        IF opened /\ valid
        THEN /\ frame_count' = n
             /\ main_goto("models", fs)
        ELSE /\ UNCHANGED frame_count
             /\ main_return(FALSE, p_temp_files, fs)
    /\ UNCHANGED <<hvars, allocated, silent, artifact, args, p_temp_files,
                   frame_idx, processed_frames, written, video_stream, out,
                   read_failed, enh_failed, sel_failed, remux>>

\* The enhancer and FaceID set-up; a model file that is missing raises.
main_models ==
    /\ proc = "running"
    /\ ppc = "models"
    /\ \E gfpgan_there \in BOOLEAN, faceid_there \in BOOLEAN :
        IF \/ args.enhancer \notin valid_enhancers
           \/ (args.enhancer = "GFPGAN" /\ ~gfpgan_there)
           \/ (args.use_faceid /\ ~faceid_there)
        THEN main_return(FALSE, p_temp_files, fs)
        ELSE main_goto("open", fs)
    /\ UNCHANGED <<hvars, allocated, silent, artifact, args, p_temp_files,
                   frame_count, frame_idx, processed_frames, written,
                   video_stream, out, read_failed, enh_failed, sel_failed,
                   remux>>

\* cv2.VideoCapture(args.face) and cv2.VideoWriter(temp_video_file, ...).
main_open ==
    /\ proc = "running"
    /\ ppc = "open"
    /\ \E stream_opened \in BOOLEAN, writer_opened \in BOOLEAN :
        IF ~stream_opened
        THEN /\ UNCHANGED <<video_stream, out, allocated>>
             /\ main_return(FALSE, p_temp_files, fs)
        ELSE IF ~writer_opened
        THEN /\ video_stream' = "open"
             /\ UNCHANGED <<out, allocated>>
             /\ main_return(FALSE, p_temp_files, fs)
        ELSE /\ video_stream' = "open"
             /\ out' = "open"
             /\ allocated' = allocated \cup {temp_video_file}
             /\ main_goto("loop", [fs EXCEPT ![temp_video_file] = EmptyFile])
    /\ UNCHANGED <<hvars, silent, artifact, args, p_temp_files,
                   frame_count, frame_idx, processed_frames, written,
                   read_failed, enh_failed, sel_failed, remux>>

\* One iteration of the frame loop.
main_loop ==
    /\ proc = "running"
    /\ ppc = "loop"
    /\ ~read_failed
    /\ frame_idx < frame_count
    /\ \E ret \in BOOLEAN, enh_ok \in BOOLEAN, sel_ok \in BOOLEAN :
        IF ~ret
        THEN /\ read_failed' = TRUE
             /\ main_goto("loop", fs)
             /\ UNCHANGED <<frame_idx, processed_frames, written, enh_failed,
                            sel_failed>>
        ELSE LET r == process_frame(Orig(frame_idx), args.use_faceid,
                                    enh_ok, sel_ok)
             IN  /\ processed_frames' = processed_frames + r.counted
                 /\ written' = write_frame(written, r.frame)
                 /\ main_goto("loop",
                        [fs EXCEPT ![temp_video_file].frames =
                            write_frame(@, r.frame)])
                 /\ frame_idx' = frame_idx + 1
                 /\ enh_failed' = IF enh_ok THEN enh_failed
                                  ELSE enh_failed \cup {frame_idx}
                 /\ sel_failed' = IF enh_ok /\ args.use_faceid /\ ~sel_ok
                                  THEN sel_failed \cup {frame_idx}
                                  ELSE sel_failed
                 /\ UNCHANGED read_failed
    /\ UNCHANGED <<hvars, allocated, silent, artifact, args, p_temp_files,
                   frame_count, video_stream, out, remux>>

\* After the loop: both handles are released, and the temp file must exist.
\* size is the size the writer gave the file; gone says the file is not
\* there.
main_release ==
    /\ proc = "running"
    /\ ppc = "loop"
    /\ read_failed \/ frame_idx = frame_count
    /\ video_stream' = "released"
    /\ out' = "released"
    /\ \E size \in ArtifactSizes, gone \in BOOLEAN :
        /\ size = 0 => written = <<>>
        /\ IF gone
           THEN /\ UNCHANGED silent
                /\ main_return(FALSE, p_temp_files,
                               [fs EXCEPT ![temp_video_file] = NoFile])
           ELSE /\ silent' = [fs[temp_video_file] EXCEPT !.bytes = size]
                /\ main_goto("remux",
                             [fs EXCEPT ![temp_video_file].bytes = size])
    /\ UNCHANGED <<hvars, allocated, artifact, args, p_temp_files,
                   frame_count, frame_idx, processed_frames, written,
                   read_failed, enh_failed, sel_failed, remux>>

\* The ffmpeg run, the fallback copy, the output check and `return True`.
main_remux ==
    /\ proc = "running"
    /\ ppc = "remux"
    /\ \E how \in {"ok", "fail", "timeout"}, wrote \in BOOLEAN,
          size \in ArtifactSizes \ {0} :
        LET after == ffmpeg(fs, how, wrote, size)
            copied == copy2(after, temp_video_file, args.outfile)
        IN  /\ remux' = how
            /\ IF how = "timeout"
               THEN main_return(FALSE, p_temp_files, after)
               ELSE IF how = "fail"
               THEN main_return(copied[args.outfile].exists,
                                p_temp_files, copied)
               ELSE main_return(after[args.outfile].exists,
                                p_temp_files, after)
    /\ UNCHANGED <<hvars, allocated, silent, artifact, args, p_temp_files,
                   frame_count, frame_idx, processed_frames, written,
                   video_stream, out, read_failed, enh_failed, sel_failed>>

\* ---------------------------------------------------------- specification
\* The two jobs of SpecPair, before either has started.
JobIds == {1, 2}
PairIdle ==
    /\ jpc = [j \in JobIds |-> "start"]
    /\ jtemp = [j \in JobIds |-> <<>>]
    /\ cpc = [j \in JobIds |-> "none"]
    /\ jpid = [j \in JobIds |-> 0]
    /\ live = {}
    /\ owned = [j \in JobIds |-> {}]
    /\ clash = {}

Jobs ==
    [shape : InputShapes, video_url : UrlValues, enhancer : EnhancerValues,
     use_faceid : FaceIdValues, enhancer_w : WeightValues]

Init ==
    /\ job \in Jobs
    /\ hpc = "start"
    /\ temp_files = <<>>
    /\ result = NoResult
    /\ events = <<>>
    /\ head = NoHead
    /\ fs = [p \in Paths |-> NoFile]
    /\ cleaned = <<>>
    /\ rmFailed = {}
    /\ allocated = {}
    /\ silent = NoFile
    /\ artifact = NoFile
    /\ proc = "none"
    /\ returncode = 0
    /\ args = NoArgs
    /\ ppc = "cli"
    /\ p_temp_files = <<>>
    /\ frame_count = 0
    /\ frame_idx = 0
    /\ processed_frames = 0
    /\ written = <<>>
    /\ video_stream = "none"
    /\ out = "none"
    /\ read_failed = FALSE
    /\ enh_failed = {}
    /\ sel_failed = {}
    /\ remux = "none"
    /\ p_ret = "none"
    /\ PairIdle

Next ==
    \/ handler_parse
    \/ handler_url_check
    \/ handler_mktemp
    \/ handler_download
    \/ handler_spawn
    \/ handler_communicate
    \/ handler_timeout
    \/ handler_package
    \/ cli_start
    \/ main_start
    \/ main_probe
    \/ main_models
    \/ main_open
    \/ main_loop
    \/ main_release
    \/ main_remux

Spec == Init /\ [][Next]_vars

\* ------------------------------------------- the CLI run on its own
\* Command lines the model enumerates for a direct run of the script.
CliArgs ==
    [face : {NoValue, input_path},
     enhancer : {"GFPGAN", "Codeformer", "Bogus"},
     enhancer_w : {-1, 0, 5, 10, 15},
     use_faceid : BOOLEAN,
     outfile : {NoValue, output_path}]

\* No job: the script is started from a shell.
NoJob ==
    [shape |-> "dict", video_url |-> NoValue, enhancer |-> NoValue,
     use_faceid |-> NoValue, enhancer_w |-> NoValue]

\* The source video given to --face, when it is there.
SourceFile == [exists |-> TRUE, bytes |-> 1, frames |-> <<>>, audio |-> TRUE]

InitCLI ==
    /\ job = NoJob
    /\ hpc = "none"
    /\ temp_files = <<>>
    /\ result = NoResult
    /\ events = <<>>
    /\ head = NoHead
    /\ \E there \in BOOLEAN :
        fs = [p \in Paths |->
                IF p = input_path /\ there THEN SourceFile ELSE NoFile]
    /\ cleaned = <<>>
    /\ rmFailed = {}
    /\ allocated = {}
    /\ silent = NoFile
    /\ artifact = NoFile
    /\ proc = "running"
    /\ returncode = 0
    /\ args \in CliArgs
    /\ ppc = "cli"
    /\ p_temp_files = <<>>
    /\ frame_count = 0
    /\ frame_idx = 0
    /\ processed_frames = 0
    /\ written = <<>>
    /\ video_stream = "none"
    /\ out = "none"
    /\ read_failed = FALSE
    /\ enh_failed = {}
    /\ sel_failed = {}
    /\ remux = "none"
    /\ p_ret = "none"
    /\ PairIdle

NextCLI ==
    \/ cli_start
    \/ main_start
    \/ main_probe
    \/ main_models
    \/ main_open
    \/ main_loop
    \/ main_release
    \/ main_remux

SpecCLI == InitCLI /\ [][NextCLI]_vars

\* ------------------------------------------------- two jobs side by side
\* Two handler invocations, each with its own child process, share the
\* temp directories and the process table.  Only what decides which files
\* a job touches is kept: the names it gets, the process id of its child,
\* and the order of its writes and deletions.
TempNames == {<<"tmp", n>> : n \in 1..MaxNames}
Pids == 1..MaxPids

\* f"enhanced_video_no_audio_{os.getpid()}.avi" in /app/temp.
temp_video_file_of(pid) == <<"enhanced_video_no_audio", pid>>

\* The temp files on disk.
OnDisk == UNION {owned[j] : j \in JobIds}

\* handler(job) of j has been called and has not returned.
Running(j) == jpc[j] \notin {"start", "returned"}

\* Job j writes, reads or deletes the files in paths: the ones that are
\* tracked by the other job while that job is running.
Touch(j, paths) ==
    {<<j, p>> : p \in {q \in paths :
        \E k \in JobIds \ {j} : Running(k) /\ q \in owned[k]}}

\* os.remove of the files in paths.
Removed(paths) == [k \in JobIds |-> owned[k] \ paths]

\* tempfile.NamedTemporaryFile(suffix='.mp4', delete=False), twice: the
\* file is created under a name that does not exist.
pair_mktemp(j) ==
    /\ jpc[j] \in {"start", "mktemp"}
    /\ \E n \in TempNames \ OnDisk :
        /\ jtemp' = [jtemp EXCEPT ![j] = Append(@, n)]
        /\ owned' = [owned EXCEPT ![j] = @ \cup {n}]
    /\ jpc' = [jpc EXCEPT ![j] = IF @ = "start" THEN "mktemp" ELSE "download"]
    /\ UNCHANGED <<cpc, jpid, live, clash,
                   singlevars>>

\* download_video writes the input path; it succeeds or not.
pair_download(j) ==
    /\ jpc[j] = "download"
    /\ clash' = clash \cup Touch(j, {jtemp[j][1]})
    /\ \E ok \in BOOLEAN :
        jpc' = [jpc EXCEPT ![j] = IF ok THEN "spawn" ELSE "failed"]
    /\ UNCHANGED <<jtemp, cpc, jpid, live, owned,
                   singlevars>>

\* subprocess.Popen: the child gets a process id that is not in use.
pair_spawn(j) ==
    /\ jpc[j] = "spawn"
    /\ \E pid \in Pids \ live :
        /\ jpid' = [jpid EXCEPT ![j] = pid]
        /\ live' = live \cup {pid}
    /\ cpc' = [cpc EXCEPT ![j] = "main"]
    /\ jpc' = [jpc EXCEPT ![j] = "communicate"]
    /\ UNCHANGED <<jtemp, owned, clash,
                   singlevars>>

\* main derives the intermediate path from its process id and opens the
\* writer on it, which creates or truncates the file.
pair_open(j) ==
    /\ cpc[j] = "main"
    /\ LET avi == temp_video_file_of(jpid[j])
       IN  /\ clash' = clash \cup Touch(j, {avi})
           /\ owned' = [owned EXCEPT ![j] = @ \cup {avi}]
    /\ cpc' = [cpc EXCEPT ![j] = "remux"]
    /\ UNCHANGED <<jpc, jtemp, jpid, live,
                   singlevars>>

\* main writes the output path from the intermediate file, returns, and
\* its finally block deletes the intermediate file.
pair_remux(j) ==
    /\ cpc[j] = "remux"
    /\ LET avi == temp_video_file_of(jpid[j])
       IN  /\ clash' = clash \cup Touch(j, {avi, jtemp[j][2]})
           /\ owned' = Removed({avi})
    /\ cpc' = [cpc EXCEPT ![j] = "exited"]
    /\ UNCHANGED <<jpc, jtemp, jpid, live,
                   singlevars>>

\* process.communicate() returns: the child is reaped.
pair_communicate(j) ==
    /\ jpc[j] = "communicate"
    /\ cpc[j] = "exited"
    /\ live' = live \ {jpid[j]}
    /\ jpc' = [jpc EXCEPT ![j] = "package"]
    /\ UNCHANGED <<jtemp, cpc, jpid, owned, clash,
                   singlevars>>

\* TimeoutExpired: process.kill() and process.wait(); the process id is
\* free again and the child's finally block has not run.
pair_timeout(j) ==
    /\ jpc[j] = "communicate"
    /\ cpc[j] \in {"main", "remux"}
    /\ cpc' = [cpc EXCEPT ![j] = "killed"]
    /\ live' = live \ {jpid[j]}
    /\ jpc' = [jpc EXCEPT ![j] = "failed"]
    /\ UNCHANGED <<jtemp, jpid, owned, clash,
                   singlevars>>

\* handler returns: it reads the output path when the child succeeded, and
\* cleanup_files deletes its two temp files.
pair_return(j) ==
    /\ jpc[j] \in {"package", "failed"}
    /\ clash' = clash \cup Touch(j, Range(jtemp[j]))
    /\ owned' = Removed(Range(jtemp[j]))
    /\ jpc' = [jpc EXCEPT ![j] = "returned"]
    /\ UNCHANGED <<jtemp, cpc, jpid, live,
                   singlevars>>

InitPair ==
    /\ job = NoJob
    /\ hpc = "none"
    /\ temp_files = <<>>
    /\ result = NoResult
    /\ events = <<>>
    /\ head = NoHead
    /\ fs = [p \in Paths |-> NoFile]
    /\ cleaned = <<>>
    /\ rmFailed = {}
    /\ allocated = {}
    /\ silent = NoFile
    /\ artifact = NoFile
    /\ proc = "none"
    /\ returncode = 0
    /\ args = NoArgs
    /\ ppc = "none"
    /\ p_temp_files = <<>>
    /\ frame_count = 0
    /\ frame_idx = 0
    /\ processed_frames = 0
    /\ written = <<>>
    /\ video_stream = "none"
    /\ out = "none"
    /\ read_failed = FALSE
    /\ enh_failed = {}
    /\ sel_failed = {}
    /\ remux = "none"
    /\ p_ret = "none"
    /\ PairIdle

NextPair ==
    \/ \E j \in JobIds : pair_mktemp(j)
    \/ \E j \in JobIds : pair_download(j)
    \/ \E j \in JobIds : pair_spawn(j)
    \/ \E j \in JobIds : pair_open(j)
    \/ \E j \in JobIds : pair_remux(j)
    \/ \E j \in JobIds : pair_communicate(j)
    \/ \E j \in JobIds : pair_timeout(j)
    \/ \E j \in JobIds : pair_return(j)

SpecPair == InitPair /\ [][NextPair]_vars

\* ------------------------------------------------------------- properties
Count(seq, x) == Cardinality({i \in 1..Len(seq) : seq[i] = x})

\* The frame loop of main is over and its handles are released.
LoopOver == out = "released"

\* C1: when every one of the frame_count reads returned a frame, the frames
\* handed to the writer are exactly the frame_count source frames, each
\* once and in the order read, whichever transforms failed; the
\* intermediate file holds the same frames.
C1_EveryFrameWrittenOnceInOrder ==
    (LoopOver /\ ~read_failed) =>
        /\ Len(written) = frame_count
        /\ \A i \in 1..Len(written) : written[i].id = i - 1
        /\ ppc = "remux" => fs[temp_video_file].frames = written

\* C1 witness: a full-length video whose every transform failed, written out.
C1_Witness ==
    /\ LoopOver
    /\ ~read_failed
    /\ frame_count = MaxFrames
    /\ enh_failed = 0..(MaxFrames - 1)
    /\ Len(written) = MaxFrames

\* C2: when the transform fails on exactly one frame k and all reads
\* succeed, the processed-frame count is frame_count and equals the number
\* of frames written, and the frame written at position k is the original.
C2_ProcessedCountIsFramesWritten ==
    (LoopOver /\ ~read_failed /\ Cardinality(enh_failed) = 1
        /\ sel_failed = {}) =>
        /\ processed_frames = frame_count
        /\ processed_frames = Len(written)
        /\ \A k \in enh_failed : written[k + 1] = Orig(k)

\* C3: when handler has returned, every path of its temp_files list was
\* passed to deletion exactly once, and a path whose deletion did not raise
\* no longer exists.
C3_TempFilesDeletedOnce ==
    hpc = "returned" =>
        \A p \in Range(temp_files) :
            /\ Count(cleaned, p) = 1
            /\ p \notin rmFailed => ~fs[p].exists

\* C3 witness: a successful job returned after deleting both its files.
C3_Witness ==
    /\ hpc = "returned"
    /\ result.kind = "success"
    /\ temp_files = <<input_path, output_path>>
    /\ rmFailed = {}

\* C4: when handler has returned, every temp file created during the job,
\* the child's intermediate video included, was handed to a cleanup loop.
C4_EveryTempPathCleaned ==
    hpc = "returned" => \A p \in allocated : p \in Range(cleaned)

\* C5: handler always ends by returning a success payload or a failure
\* payload with an error message; no exception leaves it, and it is never
\* stuck before it returns.
C5_HandlerTotal ==
    /\ result.kind \in {"none", "success", "error"}
    /\ hpc = "returned" =>
        /\ result.kind \in {"success", "error"}
        /\ result.kind = "error" <=> result.error # <<>>
        /\ result.kind = "success" <=> result.video_base64 # NoPayload
    /\ hpc # "returned" => result.kind = "none" /\ ENABLED Next

\* C5 witness: an exception inside handler (input that is no dict) came
\* back as an error result.
C5_Witness ==
    /\ hpc = "returned"
    /\ job.shape = "notdict"
    /\ result.kind = "error"

\* The request fails one of the three validation rules.
ValidationFails ==
    /\ job.shape = "dict"
    /\ \/ job.video_url = NoValue
       \/ enhancer \notin valid_enhancers
       \/ (ParseOk(enhancer_w_text) /\ (enhancer_w < 0 \/ enhancer_w > 10))

\* C6: a request that fails validation gets a failure result, and the job
\* issued no network request, created no temp file and started no child.
C6_ValidationBeforeResources ==
    ValidationFails =>
        /\ events = <<>>
        /\ head = NoHead
        /\ temp_files = <<>>
        /\ allocated = {}
        /\ proc = "none"
        /\ \A p \in Paths : ~fs[p].exists
        /\ hpc \in {"start", "returned"}
        /\ hpc = "returned" => result.kind = "error"

\* C6 witness: a request with a URL, a valid enhancer and weight 1.5 was
\* rejected.
C6_Witness ==
    /\ hpc = "returned"
    /\ job.shape = "dict"
    /\ job.video_url = "url"
    /\ job.enhancer = "GFPGAN"
    /\ job.enhancer_w = "1.5"
    /\ result.error = <<"enhancer_w out of range">>

\* main has just exited and handler has not yet looked at the result.
MainJustExited == ppc = "exited" /\ hpc = "communicate"

\* C7: when ffmpeg ends with a non-zero exit code, main returns True and the
\* output file exists, is not empty and has the content of the silent
\* intermediate video.
C7_FallbackCopyNonEmpty ==
    (MainJustExited /\ remux = "fail") =>
        /\ p_ret = "true"
        /\ returncode = 0
        /\ fs[args.outfile].exists
        /\ fs[args.outfile].bytes > 0
        /\ fs[args.outfile] = silent

\* C8: when ffmpeg exceeds its timeout, main returns False, the CLI exits
\* with code 1, and handler returns a failure result that carries no
\* artifact; the output path is deleted with the other temp files.
C8_RemuxTimeoutFailsJob ==
    remux = "timeout" =>
        /\ p_ret = "false"
        /\ returncode = 1
        /\ hpc \in {"communicate", "returned"}
        /\ hpc = "returned" =>
            /\ result.kind = "error"
            /\ result.error = <<"enhancement failed", "inference error">>
            /\ result.video_base64 = NoPayload
            /\ result.file_size = -1
            /\ output_path \notin rmFailed => ~fs[output_path].exists

\* C8 witness: a job whose remux timed out has returned.
C8_Witness ==
    /\ remux = "timeout"
    /\ hpc = "returned"
    /\ result.kind = "error"

\* C9: an artifact of at most INLINE_LIMIT bytes, the limit included, is
\* returned as a success payload holding the encoding of the whole file; a
\* larger one, from one byte over, gives the too-large failure and no
\* payload.
C9_InlineThreshold ==
    (hpc = "returned" /\ artifact.exists) =>
        IF artifact.bytes <= INLINE_LIMIT
        THEN /\ result.kind = "success"
             /\ result.file_size = artifact.bytes
             /\ result.video_base64.data = artifact
             /\ result.video_base64.chars = 4 * ((artifact.bytes + 2) \div 3)
        ELSE /\ result.kind = "error"
             /\ result.error = <<"result too large">>
             /\ result.file_size = artifact.bytes
             /\ result.video_base64 = NoPayload

\* C9 witness: an artifact of exactly INLINE_LIMIT bytes returned inline.
C9_Witness ==
    /\ hpc = "returned"
    /\ artifact.exists
    /\ artifact.bytes = INLINE_LIMIT
    /\ result.kind = "success"

\* C10: the GET is issued only after a HEAD response with status 200 whose
\* Content-Length is known and at most MAX_FILE_SIZE; after any other
\* outcome of the check the job fails and nothing is downloaded.
C10_DownloadOnlyWhenSizeKnown ==
    /\ "get" \in Range(events) =>
        /\ head.kind = "resp"
        /\ head.status = 200
        /\ head.clen.tag = "int"
        /\ head.clen.val <= MAX_FILE_SIZE
    /\ (hpc = "returned" /\ head # NoHead
          /\ ~(head.kind = "resp" /\ head.status = 200
                 /\ head.clen.tag = "int" /\ head.clen.val <= MAX_FILE_SIZE)) =>
        /\ result.kind = "error"
        /\ "get" \notin Range(events)

\* The CLI's own argument checks fail: the source file is missing, or the
\* weight is outside [0, 1].
CliCheckFails ==
    \/ ~fs[args.face].exists
    \/ args.enhancer_w < 0
    \/ args.enhancer_w > 10

\* C11 as stated: the CLI exits with 0 exactly when main returned True, and
\* with 1 in every other case, argument errors included.
C11_ExitCodeZeroOrOne ==
    ppc = "exited" =>
        /\ returncode = 0 <=> p_ret = "true"
        /\ p_ret # "true" => returncode = 1

\* C11 as amended: the CLI exits with 0 exactly when main returned True;
\* with 2 when argparse rejects the command line (enhancer outside the
\* enum, --face not given), before main runs; with 1 when the source file is
\* missing or the weight is outside [0, 1], before main runs; and with 1
\* when main returned False.
C11_ExitCodes ==
    ppc = "exited" =>
        /\ returncode \in {0, 1, 2}
        /\ returncode = 0 <=> p_ret = "true"
        /\ argparse_rejects(args) <=> returncode = 2
        /\ argparse_rejects(args) => p_ret = "none"
        /\ (~argparse_rejects(args) /\ CliCheckFails) =>
              returncode = 1 /\ p_ret = "none"
        /\ p_ret = "false" => returncode = 1

\* C11 witness: an enhancer outside the enum ended the run with status 2.
C11_Witness ==
    /\ ppc = "exited"
    /\ args.face = input_path
    /\ fs[input_path].exists
    /\ args.enhancer = "Bogus"
    /\ returncode = 2

\* C12 as stated: when identity selection fails on a frame whose transform
\* succeeded, the frame written for that iteration is the transformed
\* frame, and the loop goes on.
C12_SelectionFailureWritesTransformed ==
    \A k \in sel_failed :
        /\ k + 1 <= Len(written)
        /\ written[k + 1] = enhance(Orig(k))
        /\ ppc = "loop" \/ LoopOver

\* C12 as amended: when identity selection fails on a frame whose transform
\* succeeded, the frame written for that iteration is the original frame
\* (the transformed frame is dropped), and the loop goes on.
C12_SelectionFailureWritesOriginal ==
    \A k \in sel_failed :
        /\ k \notin enh_failed
        /\ k + 1 <= Len(written)
        /\ written[k + 1] = Orig(k)
        /\ ppc = "loop" \/ LoopOver

\* C12 witness: a full-length run in which the selection failed on the last
\* frame.
C12_Witness ==
    /\ LoopOver
    /\ ~read_failed
    /\ frame_count = MaxFrames
    /\ (MaxFrames - 1) \in sel_failed
    /\ Len(written) = MaxFrames

\* C13: when main has returned, no handle it opened is still open.
C13_HandlesReleased ==
    (ppc = "exited" /\ p_ret # "none") =>
        /\ video_stream # "open"
        /\ out # "open"

\* C14: an intermediate file that is absent or empty after the loop makes
\* main return False without running ffmpeg; and main returns True only
\* with an output file that exists and is not empty.
C14_AbsentOrEmptyIsFatal ==
    /\ (LoopOver /\ (~silent.exists \/ silent.bytes = 0)) =>
        /\ remux = "none"
        /\ ppc = "exited" => p_ret = "false"
    /\ (ppc = "exited" /\ p_ret = "true") =>
        /\ fs[args.outfile].exists
        /\ fs[args.outfile].bytes > 0

\* C15: when a read fails before frame_count frames were read, nothing is
\* written for that iteration, the run still succeeds if the remux stage
\* does, and the processed count is the number of frames handled before
\* the failed read, below frame_count.
C15_EarlyStopCountsHandledFrames ==
    (LoopOver /\ read_failed) =>
        /\ Len(written) = frame_idx
        /\ frame_idx < frame_count
        /\ processed_frames = frame_idx
        /\ (ppc = "exited" /\ remux = "fail") => p_ret = "true"

IsPrefix(a, b) == Len(a) <= Len(b) /\ SubSeq(b, 1, Len(a)) = a

\* The external effects of a whole job, stage by stage: URL check, the two
\* temp files, download, child process, and then the kill or the read of
\* the artifact.
StageRuns ==
    {<<"head", "mktemp", "mktemp", "get", t>> : t \in {"get_error", "get_empty"}}
    \cup {<<"head", "mktemp", "mktemp", "get", "get_body", "spawn", e>> :
             e \in {"kill", "read_output"}}

\* The request passes handler's validation.
RequestValid ==
    /\ job.shape = "dict"
    /\ job.video_url # NoValue
    /\ ParseOk(enhancer_w_text)
    /\ enhancer \in valid_enhancers
    /\ 0 <= enhancer_w
    /\ enhancer_w <= 10

\* The HEAD response is one the URL check accepts.
HeadAccepted ==
    /\ head.kind = "resp"
    /\ head.status = 200
    /\ \/ head.clen.tag = "absent"
       \/ head.clen.tag = "int" /\ head.clen.val <= MAX_FILE_SIZE

\* C16: the stages run in the order Validate, URL check, download, Process,
\* Package; a stage starts only when the stages before it succeeded;
\* cleanup happens at the return and nothing happens after it; and a
\* success payload holds the artifact as it was on disk before cleanup
\* deleted it.
C16_StageOrder ==
    /\ \E r \in StageRuns : IsPrefix(events, r)
    /\ events # <<>> => RequestValid
    /\ "mktemp" \in Range(events) => HeadAccepted
    /\ "spawn" \in Range(events) => "get_body" \in Range(events)
    /\ "read_output" \in Range(events) =>
        /\ proc = "exited"
        /\ returncode = 0
        /\ artifact.exists
    /\ (\E p \in Range(temp_files) : p \in Range(cleaned)) => hpc = "returned"
    /\ hpc = "returned" => ~ENABLED Next
    /\ result.kind = "success" =>
        /\ events[Len(events)] = "read_output"
        /\ result.video_base64.data = artifact
        /\ artifact.exists
        /\ output_path \notin rmFailed => ~fs[output_path].exists

\* C16 witness: a job went through every stage and returned its artifact.
C16_Witness ==
    /\ hpc = "returned"
    /\ result.kind = "success"
    /\ events = <<"head", "mktemp", "mktemp", "get", "get_body", "spawn",
                  "read_output">>
    /\ ~fs[output_path].exists

\* C17: a deletion that raises does not stop the cleanup loop (every
\* tracked path is still visited, and exactly the paths whose deletion
\* raised remain), and it does not change what handler or main return.
C17_DeletionFailureIsolated ==
    /\ hpc = "returned" =>
        /\ \A p \in Range(temp_files) :
            /\ p \in Range(cleaned)
            /\ fs[p].exists <=> p \in rmFailed
        /\ result.kind \in {"success", "error"}
        /\ result.kind = "success" <=>
              (artifact.exists /\ artifact.bytes <= INLINE_LIMIT)
    /\ (ppc = "exited" /\ p_ret # "none") =>
        /\ \A p \in Range(p_temp_files) : p \in Range(cleaned)
        /\ p_ret = "true" <=> remux \in {"ok", "fail"}
        /\ returncode = 0 <=> p_ret = "true"

\* C17 witness: the deletion of the first file raised, the second file was
\* deleted all the same, and the job returned its success payload.
C17_Witness ==
    /\ hpc = "returned"
    /\ input_path \in rmFailed
    /\ fs[input_path].exists
    /\ ~fs[output_path].exists
    /\ result.kind = "success"

\* C18: a download that leaves a zero-byte file makes handler return the
\* download failure, and the child process is never started.
C18_EmptyDownloadFailsJob ==
    "get_empty" \in Range(events) =>
        /\ hpc = "returned"
        /\ result = Error(<<"download failed">>)
        /\ "spawn" \notin Range(events)
        /\ proc = "none"
        /\ ppc = "cli"

\* C18 witness: a job whose download was empty has returned.
C18_Witness ==
    /\ "get_empty" \in Range(events)
    /\ hpc = "returned"
    /\ result.kind = "error"

\* Everything a success needs happened in this job.
AllStagesSucceeded ==
    /\ RequestValid
    /\ HeadAccepted
    /\ events = <<"head", "mktemp", "mktemp", "get", "get_body", "spawn",
                  "read_output">>
    /\ proc = "exited"
    /\ returncode = 0
    /\ p_ret = "true"
    /\ artifact.exists
    /\ artifact.bytes > 0
    /\ artifact.bytes <= INLINE_LIMIT

\* C20: handler returns a success payload exactly when validation passed,
\* the URL check accepted, the download was not empty, the child exited
\* with code 0 within the timeout and the output existed with a size in
\* 1..INLINE_LIMIT; otherwise it returns a failure payload.
C20_SuccessOnlyAfterAllStages ==
    /\ result.kind = "success" => hpc = "returned"
    /\ hpc = "returned" =>
        /\ result.kind = "success" <=> AllStagesSucceeded
        /\ result.kind # "success" =>
              result.kind = "error" /\ result.video_base64 = NoPayload

\* C20 witness: a success for a one-byte artifact, after a HEAD response
\* without Content-Length.
C20_Witness ==
    /\ hpc = "returned"
    /\ result.kind = "success"
    /\ artifact.bytes = 1
    /\ head.clen.tag = "absent"

\* C19: while two jobs run side by side, the sets of temp files they
\* track are disjoint, and neither job writes, reads or deletes a temp
\* file of the other.
C19_TempPathsDisjoint ==
    /\ \A j \in JobIds : \A k \in JobIds \ {j} :
        (Running(j) /\ Running(k)) => owned[j] \cap owned[k] = {}
    /\ clash = {}

\* A step of the child process.
PipelineStep ==
    \/ cli_start
    \/ main_start
    \/ main_probe
    \/ main_models
    \/ main_open
    \/ main_loop
    \/ main_release
    \/ main_remux

C22_CleanupOnlyIntermediate ==
    /\ Range(p_temp_files) \subseteq {temp_video_file}
    /\ Range(cleaned) \subseteq {temp_video_file}
    /\ p_temp_files # <<>> => fs[input_path] = SourceFile
    /\ p_ret = "true" =>
        /\ fs[args.outfile].exists
        /\ temp_video_file \in Range(cleaned)
    /\ p_ret # "none" =>
        (fs[temp_video_file].exists => temp_video_file \in rmFailed)

\* C22 witness: a successful run ended; the intermediate file was deleted
\* and the source and the output are there.
C22_Witness ==
    /\ ppc = "exited"
    /\ p_ret = "true"
    /\ ~fs[temp_video_file].exists
    /\ silent.exists
    /\ fs[input_path] = SourceFile
    /\ fs[args.outfile].exists
    /\ fs[args.outfile].frames # <<>>

====
